---- MODULE Spec2Model ----
(***************************************************************************)
(* Invoice / payment reconciliation and identifier generation of the       *)
(* daycare management system (DMS/finance, DMS/children).                  *)
(*                                                                         *)
(* Money is counted in mills (1 cent = 10 mills): a stored DecimalField    *)
(* with two decimal places always holds a multiple of Cent, a submitted    *)
(* Decimal may be any number of mills.  Dates are day ordinals; a year has *)
(* DaysPerYear days.  An identifier "PREFIX-PERIOD-SEQ" is the record      *)
(* [prefix, period, seq] whose seq is the string of decimal digits after   *)
(* the last '-'; PREFIX and PERIOD are fixed-width, so "starts with        *)
(* PREFIX-PERIOD" is equality of these two fields.                         *)
(***************************************************************************)
EXTENDS Integers, Sequences, FiniteSets, TLC

\* ------------------------------------------------------------- bounds
MaxDay == 2
DaysPerYear == 2
MaxChildren == 3
MaxInvoices == 2
MaxPayments == 2
MaxAmount == 2

\* ---------------------------------------------------- program constants
RegWidth == 3
InvWidth == 4
Cent == 10

\* a NULL date column
NULL == 0 - 1
Parents == {"pa", "pb"}
STATUS_CHOICES == {"draft", "sent", "paid", "partial", "overdue", "cancelled"}
PAYMENT_METHOD_CHOICES ==
  {"cash", "mobile_money", "bank_transfer", "debit_card", "credit_card", "cheque"}

VARIABLES
  today,          \* the current date (day ordinal)
  parents,        \* table parents: the stored parent profiles
  children,       \* table children: pk -> [registration_number]
  invoices,       \* table invoices: pk -> row
  payments,       \* table payments: pk -> row
  nextChildId,    \* next primary key of children
  nextInvoiceId,  \* next primary key of invoices
  nextPaymentId,  \* next primary key of payments
  issued,         \* history: every identifier ever stored
  lastGen,        \* history: per kind, the outcome of the latest generation
  resp,           \* the response of the latest request
  req,            \* concurrent parent_make_payment requests (locals of each)
  gen             \* concurrent creations (locals of each save())

vars == <<today, parents, children, invoices, payments, nextChildId, nextInvoiceId,
          nextPaymentId, issued, lastGen, resp, req, gen>>

store == <<parents, children, invoices, payments, nextChildId, nextInvoiceId, nextPaymentId>>

\* ------------------------------------------------------------ calendar
YearOf(d) == d \div DaysPerYear

\* --------------------------------------------- decimal digit strings
RECURSIVE Digits(_)
Digits(n) == IF n < 10 THEN <<n>> ELSE Digits(n \div 10) \o <<n % 10>>

RECURSIVE Pad(_, _)
Pad(s, w) == IF Len(s) >= w THEN s ELSE Pad(<<0>> \o s, w)

\* f"{n:0{w}d}"
Format(n, w) == Pad(Digits(n), w)

RECURSIVE Parse(_)
Parse(s) == IF Len(s) = 0 THEN 0 ELSE 10 * Parse(SubSeq(s, 1, Len(s) - 1)) + s[Len(s)]

\* string order of two digit strings, as ORDER BY on a CharField compares them
LexLess(a, b) ==
  \/ \E i \in 1..Len(a) :
        /\ i <= Len(b)
        /\ a[i] < b[i]
        /\ \A j \in 1..(i - 1) : a[j] = b[j]
  \/ /\ Len(a) < Len(b)
     /\ \A j \in 1..Len(a) : a[j] = b[j]

\* ---------------------------------------------------------- identifiers
MkId(prefix, period, seq) == [prefix |-> prefix, period |-> period, seq |-> seq]

\* mutant of StartsWith: the filter forgets the period
StartsWithPrefixOnly(id, prefix, period) == id.prefix = prefix

\* invoice_number__startswith=prefix / registration_number__startswith=...
StartsWith(id, prefix, period) == id.prefix = prefix /\ id.period = period

\* .order_by('-<number>').first() of a non-empty query set
LexLast(ids) == CHOOSE x \in ids : \A y \in ids : ~LexLess(x.seq, y.seq)

\* last_num + 1
NewNum(last_num) == last_num + 1

\* the identifier computed by save() for a record that has none
GenerateId(prefix, period, width, existing) ==
  LET matching == {n \in existing : StartsWith(n, prefix, period)}
  IN  IF matching # {}
        THEN MkId(prefix, period, Format(NewNum(Parse(LexLast(matching).seq)), width))
        ELSE MkId(prefix, period, Format(1, width))

RegNumbers == {children[c].registration_number : c \in DOMAIN children}
InvNumbers == {invoices[i].invoice_number : i \in DOMAIN invoices}

\* unique=True on the identifier column
UniqueOK(id, existing) == id \notin existing

Remove(f, k) == [x \in DOMAIN f \ {k} |-> f[x]]

Empty == [x \in {} |-> NULL]

Idle == [pc |-> "idle"]

\* no generation yet (or a record of the kind was deleted since)
NoGen == [some |-> FALSE, id |-> [prefix |-> "", period |-> NULL, seq |-> <<>>],
          stored |-> FALSE]

GenOf(id, stored) == [some |-> TRUE, id |-> id, stored |-> stored]

NoResp == [op |-> "none", result |-> "none"]

Response(op, result) == [op |-> op, result |-> result]

Procs == {"r1", "r2"}

\* ------------------------------------------------------- initial stores
\* A registration number close to the end of the three-digit range, left
\* over from a year with many registrations (the others since deleted).
SeedSeq == 10 ^ RegWidth - 1

SeedChildren ==
  { Empty,
    1 :> [registration_number |-> MkId("REG", YearOf(0), Format(SeedSeq, RegWidth))] }

IdInit ==
  /\ today = 0
  /\ parents = Parents
  /\ children \in SeedChildren
  /\ invoices = Empty
  /\ payments = Empty
  /\ nextChildId = Cardinality(DOMAIN children) + 1
  /\ nextInvoiceId = 1
  /\ nextPaymentId = 1
  /\ issued = RegNumbers
  /\ lastGen = [k \in {"REG", "INV"} |-> NoGen]
  /\ resp = NoResp
  /\ req = [p \in Procs |-> Idle]
  /\ gen = [p \in Procs |-> Idle]

\* ------------------------------------------------------------- the clock
Tick ==
  /\ today < MaxDay
  /\ today' = today + 1
  /\ UNCHANGED <<store, issued, lastGen, resp, req, gen>>

\* --------------------------------------------- Child.save (new record)
CreateChild ==
  /\ nextChildId <= MaxChildren
  /\ LET id == GenerateId("REG", YearOf(today), RegWidth, RegNumbers)
     IN  IF UniqueOK(id, RegNumbers)
           THEN /\ children' = children @@ (nextChildId :> [registration_number |-> id])
                /\ nextChildId' = nextChildId + 1
                /\ issued' = issued \cup {id}
                /\ lastGen' = [lastGen EXCEPT !["REG"] = GenOf(id, TRUE)]
           ELSE \* IntegrityError: nothing is stored
                /\ lastGen' = [lastGen EXCEPT !["REG"] = GenOf(id, FALSE)]
                /\ UNCHANGED <<children, nextChildId, issued>>
  /\ UNCHANGED <<today, parents, invoices, payments, nextInvoiceId, nextPaymentId, resp, req, gen>>

\* mutant of ChildProtected: the reference does not protect the child
ChildNotProtected(c) == FALSE

\* on_delete=PROTECT of Invoice.child
ChildProtected(c) == \E i \in DOMAIN invoices : invoices[i].child = c

\* deletion of a child (ChildAdmin)
DeleteChild(c) ==
  /\ c \in DOMAIN children
  /\ IF ChildProtected(c)
       THEN \* ProtectedError: nothing is deleted
            /\ resp' = Response("delete", "protected_error")
            /\ UNCHANGED <<children, lastGen>>
       ELSE /\ children' = Remove(children, c)
            /\ lastGen' = [lastGen EXCEPT !["REG"] = NoGen]
            /\ resp' = Response("delete", "deleted")
  /\ UNCHANGED <<today, parents, invoices, payments, nextChildId, nextInvoiceId,
                 nextPaymentId, issued, req, gen>>

\* ------------------------------------------- Invoice.save (new record)
NewInvoice(number, parent, child, amount, due, status) ==
  [invoice_number |-> number, parent |-> parent, child |-> child,
   amount |-> amount, amount_paid |-> 0, due_date |-> due,
   paid_date |-> NULL, status |-> status]

CreateInvoice(parent, child, amount, due, status) ==
  /\ nextInvoiceId <= MaxInvoices
  /\ parent \in parents
  /\ child \in DOMAIN children
  /\ LET id == GenerateId("INV", today, InvWidth, InvNumbers)
     IN  IF UniqueOK(id, InvNumbers)
           THEN /\ invoices' = invoices @@
                      (nextInvoiceId :> NewInvoice(id, parent, child, amount, due, status))
                /\ nextInvoiceId' = nextInvoiceId + 1
                /\ issued' = issued \cup {id}
                /\ lastGen' = [lastGen EXCEPT !["INV"] = GenOf(id, TRUE)]
           ELSE /\ lastGen' = [lastGen EXCEPT !["INV"] = GenOf(id, FALSE)]
                /\ UNCHANGED <<invoices, nextInvoiceId, issued>>
  /\ UNCHANGED <<today, parents, children, payments, nextChildId, nextPaymentId, resp, req, gen>>

\* on_delete=PROTECT of Payment.invoice
InvoiceProtected(i) == \E p \in DOMAIN payments : payments[p].invoice = i

DeleteInvoice(i) ==
  /\ i \in DOMAIN invoices
  /\ IF InvoiceProtected(i)
       THEN \* ProtectedError: nothing is deleted
            /\ resp' = Response("delete", "protected_error")
            /\ UNCHANGED <<invoices, lastGen>>
       ELSE /\ invoices' = Remove(invoices, i)
            /\ lastGen' = [lastGen EXCEPT !["INV"] = NoGen]
            /\ resp' = Response("delete", "deleted")
  /\ UNCHANGED <<today, parents, children, payments, nextChildId, nextInvoiceId,
                 nextPaymentId, issued, req, gen>>

\* on_delete=PROTECT of Invoice.parent
ParentProtected(p) == \E i \in DOMAIN invoices : invoices[i].parent = p

\* deletion of a parent profile (ParentAdmin, or the cascade from its user)
DeleteParent(p) ==
  /\ p \in parents
  /\ IF ParentProtected(p)
       THEN \* ProtectedError: nothing is deleted
            /\ resp' = Response("delete", "protected_error")
            /\ UNCHANGED parents
       ELSE /\ parents' = parents \ {p}
            /\ resp' = Response("delete", "deleted")
  /\ UNCHANGED <<today, children, invoices, payments, nextChildId, nextInvoiceId,
                 nextPaymentId, issued, lastGen, req, gen>>

\* ------------------------------ creation and deletion, one after another
IdNext ==
  \/ Tick
  \/ CreateChild
  \/ \E c \in DOMAIN children : DeleteChild(c)
  \/ \E c \in DOMAIN children :
        CreateInvoice("pa", c, MaxAmount * Cent, MaxDay, "draft")
  \/ \E i \in DOMAIN invoices : DeleteInvoice(i)

IdSpec == IdInit /\ [][IdNext]_vars

\* ------------------------------------------------ concurrent creations
\* Each of two requests runs one save() of a new record: the query for the
\* last identifier (one read of the table), then super().save() (one INSERT,
\* checked against the unique index).  Nothing else is shared.
Kinds == {"REG", "INV"}

\* datetime.now().year / datetime.now().strftime('%Y%m%d')
PeriodOf(kind, d) == IF kind = "REG" THEN YearOf(d) ELSE d

WidthOf(kind) == IF kind = "REG" THEN RegWidth ELSE InvWidth

\* mutant of Existing: the query also sees what other requests are about to
\* insert (as if identifiers were reserved when read)
ExistingOrPending(kind) ==
  (IF kind = "REG" THEN RegNumbers ELSE InvNumbers) \cup
  {gen[q].id : q \in {r \in Procs : gen[r].pc = "write" /\ gen[r].kind = kind}}

\* the identifiers the query of save() sees: the rows stored at that moment
Existing(kind) == IF kind = "REG" THEN RegNumbers ELSE InvNumbers

\* lines "if not self.<number>:" to "self.<number> = ...": query and format
GenRead(p, kind) ==
  /\ gen[p].pc = "idle"
  /\ kind = "INV" => DOMAIN children # {}
  /\ gen' = [gen EXCEPT ![p] =
        [pc |-> "write", kind |-> kind,
         id |-> GenerateId(kind, PeriodOf(kind, today), WidthOf(kind), Existing(kind))]]
  /\ UNCHANGED <<today, store, issued, lastGen, resp, req>>

\* super().save(): INSERT, or IntegrityError on a duplicate identifier
GenWrite(p) ==
  /\ gen[p].pc = "write"
  /\ LET kind == gen[p].kind
         id == gen[p].id
     IN  IF UniqueOK(id, Existing(kind))
           THEN /\ gen' = [gen EXCEPT ![p] = [pc |-> "done", kind |-> kind, id |-> id,
                                               result |-> "stored"]]
                /\ issued' = issued \cup {id}
                /\ lastGen' = [lastGen EXCEPT ![kind] = GenOf(id, TRUE)]
                /\ IF kind = "REG"
                     THEN /\ children' = children @@
                                (nextChildId :> [registration_number |-> id])
                          /\ nextChildId' = nextChildId + 1
                          /\ UNCHANGED <<invoices, nextInvoiceId>>
                     ELSE /\ invoices' = invoices @@
                                (nextInvoiceId :> NewInvoice(id, "pa",
                                    CHOOSE c \in DOMAIN children : TRUE,
                                    MaxAmount * Cent, MaxDay, "draft"))
                          /\ nextInvoiceId' = nextInvoiceId + 1
                          /\ UNCHANGED <<children, nextChildId>>
           ELSE /\ gen' = [gen EXCEPT ![p] = [pc |-> "done", kind |-> kind, id |-> id,
                                               result |-> "conflict"]]
                /\ lastGen' = [lastGen EXCEPT ![kind] = GenOf(id, FALSE)]
                /\ UNCHANGED <<children, invoices, nextChildId, nextInvoiceId, issued>>
  /\ UNCHANGED <<today, parents, payments, nextPaymentId, resp, req>>

\* the creation is submitted again after the IntegrityError: save() of a new
\* object of the same kind, which has no identifier yet
GenRetry(p) ==
  /\ gen[p].pc = "done"
  /\ gen[p].result = "conflict"
  /\ gen' = [gen EXCEPT ![p] =
        [pc |-> "write", kind |-> gen[p].kind,
         id |-> GenerateId(gen[p].kind, PeriodOf(gen[p].kind, today),
                           WidthOf(gen[p].kind), Existing(gen[p].kind))]]
  /\ UNCHANGED <<today, store, issued, lastGen, resp, req>>

IdConcNext ==
  \/ Tick
  \/ \E p \in Procs, k \in Kinds : GenRead(p, k)
  \/ \E p \in Procs : GenWrite(p)
  \/ \E p \in Procs : GenRetry(p)

IdConcSpec == IdInit /\ [][IdConcNext]_vars

\* ======================================================================
\* Payments
\* ======================================================================

\* DecimalField(decimal_places=2) on save: the value is quantized to cents,
\* rounding half to even
Quantize(m) ==
  LET q == m \div Cent
      r == m % Cent
  IN  IF 2 * r > Cent \/ (2 * r = Cent /\ q % 2 = 1) THEN (q + 1) * Cent ELSE q * Cent

\* invoice.payments.all()
PaymentsOf(pays, i) == {k \in DOMAIN pays : pays[k].invoice = i}

RECURSIVE SumAmounts(_, _)
SumAmounts(pays, ks) ==
  IF ks = {} THEN 0
  ELSE LET k == CHOOSE x \in ks : TRUE
       IN  pays[k].amount + SumAmounts(pays, ks \ {k})

\* total_paid = sum(payment.amount for payment in invoice.payments.all())
TotalPaid(pays, i) == SumAmounts(pays, PaymentsOf(pays, i))

\* Payment.save, first line: super().save() inserts the row
InsertPayment(pays, pk, i, amount, date, method) ==
  pays @@ (pk :> [invoice |-> i, amount |-> Quantize(amount),
                  payment_date |-> date, payment_method |-> method])

\* mutant of Reconcile: amount_paid is capped at the billed amount
ReconcileCapped(inv, total_paid, payment_date) ==
  IF total_paid >= inv.amount
    THEN [inv EXCEPT !.amount_paid = inv.amount, !.status = "paid",
                     !.paid_date = payment_date]
    ELSE IF total_paid > 0
      THEN [inv EXCEPT !.amount_paid = total_paid, !.status = "partial"]
      ELSE [inv EXCEPT !.amount_paid = total_paid]

\* mutant of Reconcile: "paid" only when the total exceeds the billed amount
ReconcileStrict(inv, total_paid, payment_date) ==
  IF total_paid > inv.amount
    THEN [inv EXCEPT !.amount_paid = total_paid, !.status = "paid",
                     !.paid_date = payment_date]
    ELSE IF total_paid > 0
      THEN [inv EXCEPT !.amount_paid = total_paid, !.status = "partial"]
      ELSE [inv EXCEPT !.amount_paid = total_paid]

\* mutant of Reconcile: a partial payment also stamps paid_date
ReconcileStampsPartial(inv, total_paid, payment_date) ==
  IF total_paid >= inv.amount
    THEN [inv EXCEPT !.amount_paid = total_paid, !.status = "paid",
                     !.paid_date = payment_date]
    ELSE IF total_paid > 0
      THEN [inv EXCEPT !.amount_paid = total_paid, !.status = "partial",
                       !.paid_date = payment_date]
      ELSE [inv EXCEPT !.amount_paid = total_paid]

\* mutant of Reconcile: the total is added to amount_paid, not assigned
ReconcileIncrements(inv, total_paid, payment_date) ==
  IF total_paid >= inv.amount
    THEN [inv EXCEPT !.amount_paid = inv.amount_paid + total_paid, !.status = "paid",
                     !.paid_date = payment_date]
    ELSE IF total_paid > 0
      THEN [inv EXCEPT !.amount_paid = inv.amount_paid + total_paid,
                       !.status = "partial"]
      ELSE [inv EXCEPT !.amount_paid = inv.amount_paid + total_paid]

\* mutant of Reconcile: a cancelled invoice stays cancelled
ReconcileKeepsCancelled(inv, total_paid, payment_date) ==
  IF inv.status = "cancelled"
    THEN [inv EXCEPT !.amount_paid = total_paid]
    ELSE IF total_paid >= inv.amount
      THEN [inv EXCEPT !.amount_paid = total_paid, !.status = "paid",
                       !.paid_date = payment_date]
      ELSE IF total_paid > 0
        THEN [inv EXCEPT !.amount_paid = total_paid, !.status = "partial"]
        ELSE [inv EXCEPT !.amount_paid = total_paid]

\* Payment.save, "invoice.amount_paid = total_paid" to the status update:
\* the invoice object of the payment after reconciliation
Reconcile(inv, total_paid, payment_date) ==
  IF total_paid >= inv.amount
    THEN [inv EXCEPT !.amount_paid = total_paid, !.status = "paid",
                     !.paid_date = payment_date]
    ELSE IF total_paid > 0
      THEN [inv EXCEPT !.amount_paid = total_paid, !.status = "partial"]
      ELSE [inv EXCEPT !.amount_paid = total_paid]

\* Invoice.balance_due
BalanceDue(inv) == inv.amount - inv.amount_paid

\* mutant of IsOverdue: overdue on the due date itself
IsOverdueOnDueDate(inv, d) ==
  IF inv.status \in {"paid", "cancelled"} THEN FALSE ELSE d >= inv.due_date

\* Invoice.is_overdue, with date.today() = d
IsOverdue(inv, d) ==
  IF inv.status \in {"paid", "cancelled"} THEN FALSE ELSE d > inv.due_date

\* Invoice.days_overdue, with date.today() = d
DaysOverdue(inv, d) ==
  IF ~IsOverdue(inv, d) THEN 0 ELSE d - inv.due_date

\* ----------------------------------------------------- request inputs
\* the user of a request: authenticated or not, role, linked parent profile
NoProfile == "none"

Actors ==
  { [auth |-> FALSE, role |-> "none", profile |-> NoProfile],
    [auth |-> TRUE, role |-> "parent", profile |-> "pa"],
    [auth |-> TRUE, role |-> "parent", profile |-> "pb"],
    [auth |-> TRUE, role |-> "parent", profile |-> NoProfile],
    [auth |-> TRUE, role |-> "staff", profile |-> "pa"] }

\* the submitted 'amount' field: a decimal number of mills, or text that
\* Decimal() cannot convert
NotANumber == [num |-> FALSE, mills |-> 0]

Amount(m) == [num |-> TRUE, mills |-> m]

\* a third of a cent, which a stored amount cannot hold
SubCent == Cent \div 3

AmountInputs ==
  {NotANumber, Amount(SubCent)} \cup {Amount(c * Cent) : c \in (0 - 1)..(MaxAmount + 1)}

\* the submitted 'payment_method' field, stripped
MethodInputs == {"", "cash"}

\* mutant of CanParentAccessInvoice: any user with a parent profile passes
CanAccessWithAnyProfile(actor, inv) == actor.profile # NoProfile

\* can_parent_access_invoice(request, invoice)
CanParentAccessInvoice(actor, inv) ==
  IF actor.profile = NoProfile THEN FALSE ELSE inv.parent = actor.profile

\* mutant of Gate: the role of the user is not checked
GateIgnoresRole(actor, invs, i, method, amount, pm) ==
  IF ~actor.auth THEN "login"
  ELSE IF i \notin DOMAIN invs THEN "not_found"
  ELSE IF actor.profile = NoProfile \/ invs[i].parent # actor.profile
    THEN "forbidden_invoice"
  ELSE IF invs[i].status = "paid" THEN "already_paid"
  ELSE IF method # "POST" THEN "form"
  ELSE IF ~amount.num THEN "server_error"
  ELSE IF amount.mills <= 0 THEN "amount_not_positive"
  ELSE IF amount.mills > invs[i].amount - invs[i].amount_paid
    THEN "amount_exceeds_balance"
  ELSE IF pm = "" THEN "no_method"
  ELSE "ok"

\* mutant of Gate: the amount is not compared with the balance due
GateAllowsOverpayment(actor, invs, i, method, amount, pm) ==
  IF ~actor.auth THEN "login"
  ELSE IF actor.role # "parent" THEN "forbidden_role"
  ELSE IF i \notin DOMAIN invs THEN "not_found"
  ELSE IF actor.profile = NoProfile \/ invs[i].parent # actor.profile
    THEN "forbidden_invoice"
  ELSE IF invs[i].status = "paid" THEN "already_paid"
  ELSE IF method # "POST" THEN "form"
  ELSE IF ~amount.num THEN "server_error"
  ELSE IF amount.mills <= 0 THEN "amount_not_positive"
  ELSE IF pm = "" THEN "no_method"
  ELSE "ok"

\* mutant of Gate: the amount check is "< 0", so an amount of 0 passes
GateAllowsZero(actor, invs, i, method, amount, pm) ==
  IF ~actor.auth THEN "login"
  ELSE IF actor.role # "parent" THEN "forbidden_role"
  ELSE IF i \notin DOMAIN invs THEN "not_found"
  ELSE IF actor.profile = NoProfile \/ invs[i].parent # actor.profile
    THEN "forbidden_invoice"
  ELSE IF invs[i].status = "paid" THEN "already_paid"
  ELSE IF method # "POST" THEN "form"
  ELSE IF ~amount.num THEN "server_error"
  ELSE IF amount.mills < 0 THEN "amount_not_positive"
  ELSE IF amount.mills > invs[i].amount - invs[i].amount_paid
    THEN "amount_exceeds_balance"
  ELSE IF pm = "" THEN "no_method"
  ELSE "ok"

\* parent_make_payment up to the creation of the payment: "ok" when the
\* payment is to be created, else the response that ends the request
\* (an uncaught decimal.InvalidOperation is an error page)
Gate(actor, invs, i, method, amount, pm) ==
  IF ~actor.auth THEN "login"
  ELSE IF actor.role # "parent" THEN "forbidden_role"
  ELSE IF i \notin DOMAIN invs THEN "not_found"
  ELSE IF ~CanParentAccessInvoice(actor, invs[i]) THEN "forbidden_invoice"
  ELSE IF invs[i].status = "paid" THEN "already_paid"
  ELSE IF method # "POST" THEN "form"
  ELSE IF ~amount.num THEN "server_error"
  ELSE IF amount.mills <= 0 THEN "amount_not_positive"
  ELSE IF amount.mills > BalanceDue(invs[i]) THEN "amount_exceeds_balance"
  ELSE IF pm = "" THEN "no_method"
  ELSE "ok"

\* an invoice_number that is empty: "not self.invoice_number"
NoNumber == [prefix |-> "", period |-> NULL, seq |-> <<>>]

\* mutant of SaveInvoice: the number is generated on every save
SaveInvoiceRegenerates(inv) ==
  [inv EXCEPT !.invoice_number = GenerateId("INV", today, InvWidth, InvNumbers)]

\* Invoice.save of a stored invoice: a number is generated only when the
\* object has none, then every column of the object is written
SaveInvoice(inv) ==
  IF inv.invoice_number = NoNumber
    THEN [inv EXCEPT !.invoice_number = GenerateId("INV", today, InvWidth, InvNumbers)]
    ELSE inv

\* ------------------------------- requests handled one after another
\* Payment.save of a new payment whose invoice was just loaded
SavePayment(i, amount, date, method) ==
  LET pays == InsertPayment(payments, nextPaymentId, i, amount, date, method)
  IN  /\ payments' = pays
      /\ nextPaymentId' = nextPaymentId + 1
      /\ invoices' = [invoices EXCEPT ![i] =
                          SaveInvoice(Reconcile(@, TotalPaid(pays, i), date))]

\* record_payment: Payment.save called directly
RecordPayment(i, amount, date, method) ==
  /\ nextPaymentId <= MaxPayments
  /\ i \in DOMAIN invoices
  /\ SavePayment(i, amount, date, method)
  /\ resp' = Response("record_payment", "recorded")
  /\ UNCHANGED <<today, parents, children, nextChildId, nextInvoiceId, issued, lastGen, req, gen>>

\* the view parent_make_payment, from the decorators to the response
ParentMakePayment(actor, i, method, amount, pm) ==
  /\ nextPaymentId <= MaxPayments
  /\ LET result == Gate(actor, invoices, i, method, amount, pm)
     IN  IF result = "ok"
           THEN /\ SavePayment(i, amount.mills, today, pm)
                /\ resp' = Response("parent_make_payment", "recorded")
           ELSE /\ resp' = Response("parent_make_payment", result)
                /\ UNCHANGED <<payments, nextPaymentId, invoices>>
  /\ UNCHANGED <<today, parents, children, nextChildId, nextInvoiceId, issued, lastGen, req, gen>>

\* ------------------------------------------------------ initial ledger
\* two children, and two invoices just created on day 0, one for each parent
LedgerChildren ==
  1 :> [registration_number |-> MkId("REG", YearOf(0), Format(1, RegWidth))] @@
  2 :> [registration_number |-> MkId("REG", YearOf(0), Format(2, RegWidth))]

LedgerInvoices ==
  1 :> NewInvoice(MkId("INV", 0, Format(1, InvWidth)), "pa", 1, MaxAmount * Cent, 1, "draft") @@
  2 :> NewInvoice(MkId("INV", 0, Format(2, InvWidth)), "pb", 2, Cent, 1, "sent")

Init ==
  /\ today = 0
  /\ parents = Parents
  /\ children = LedgerChildren
  /\ invoices = LedgerInvoices
  /\ payments = Empty
  /\ nextChildId = 3
  /\ nextInvoiceId = 3
  /\ nextPaymentId = 1
  /\ issued = RegNumbers \cup InvNumbers
  /\ lastGen = [k \in {"REG", "INV"} |-> NoGen]
  /\ resp = NoResp
  /\ req = [p \in Procs |-> Idle]
  /\ gen = [p \in Procs |-> Idle]

\* the invoice ids a request may name: the stored ones and one that is not
InvoiceIds == DOMAIN invoices \cup {nextInvoiceId}

\* the amounts of payments recorded directly: Payment.save checks none
DirectAmounts == {0 - Cent, Cent, MaxAmount * Cent}

\* what a request carries: a GET has no form, a POST has the form fields
Forms ==
  {<<"GET", NotANumber, "">>} \cup
  {<<"POST", amount, pm>> : amount \in AmountInputs, pm \in MethodInputs}

Next ==
  \/ Tick
  \/ \E i \in DOMAIN invoices, m \in DirectAmounts : RecordPayment(i, m, today, "cash")
  \/ \E actor \in Actors, i \in InvoiceIds, f \in Forms :
        ParentMakePayment(actor, i, f[1], f[2], f[3])

Spec == Init /\ [][Next]_vars

\* --------------------------------------- one invoice of any initial status
\* An invoice as created (no payment, amount_paid 0.00, paid_date NULL) with
\* any status a new invoice may be given, any due date and billed amount.
InitialStatuses == STATUS_CHOICES \ {"paid", "partial"}

DueInputs == {0, 1}

ReconInvoices ==
  { 1 :> NewInvoice(MkId("INV", 0, Format(1, InvWidth)), "pa", 1, amount, due, status) :
      amount \in {Cent, MaxAmount * Cent}, due \in DueInputs, status \in InitialStatuses }

ReconInit ==
  /\ today = 0
  /\ parents = Parents
  /\ children = LedgerChildren
  /\ invoices \in ReconInvoices
  /\ payments = Empty
  /\ nextChildId = 3
  /\ nextInvoiceId = 2
  /\ nextPaymentId = 1
  /\ issued = RegNumbers \cup InvNumbers
  /\ lastGen = [k \in {"REG", "INV"} |-> NoGen]
  /\ resp = NoResp
  /\ req = [p \in Procs |-> Idle]
  /\ gen = [p \in Procs |-> Idle]

\* payments saved one after another on that invoice, as the days pass
ReconNext ==
  \/ Tick
  \/ \E i \in DOMAIN invoices, m \in DirectAmounts : RecordPayment(i, m, today, "cash")

ReconSpec == ReconInit /\ [][ReconNext]_vars

\* ------------------------------------------------ the invoice detail page
\* the view parent_invoice_detail: the decorators, the lookup, the access
\* check, and the context of the rendered page
ParentInvoiceDetail(actor, i) ==
  /\ resp' =
       IF ~actor.auth THEN Response("parent_invoice_detail", "login")
       ELSE IF actor.role # "parent" THEN Response("parent_invoice_detail", "forbidden_role")
       ELSE IF i \notin DOMAIN invoices THEN Response("parent_invoice_detail", "not_found")
       ELSE IF ~CanParentAccessInvoice(actor, invoices[i])
         THEN Response("parent_invoice_detail", "forbidden_invoice")
       ELSE [op |-> "parent_invoice_detail", result |-> "served", invoice |-> i,
             balance_due |-> BalanceDue(invoices[i]),
             is_overdue |-> IsOverdue(invoices[i], today),
             days_overdue |-> DaysOverdue(invoices[i], today)]
  /\ UNCHANGED <<today, store, issued, lastGen, req, gen>>

\* the invoice of ReconInit is paid on and looked at as the days pass
DetailNext ==
  \/ Tick
  \/ \E i \in DOMAIN invoices, m \in DirectAmounts : RecordPayment(i, m, today, "cash")
  \/ \E actor \in Actors, i \in InvoiceIds : ParentInvoiceDetail(actor, i)

DetailSpec == ReconInit /\ [][DetailNext]_vars

\* ------------------------------------- submissions with any form values
\* the 'payment_method' field may hold any text: one that is no choice too
AnyMethodInputs == MethodInputs \cup {"bitcoin"}

\* submissions of the two parents, one after another
SubmitNext ==
  \/ Tick
  \/ \E actor \in {a \in Actors : a.role = "parent" /\ a.profile # NoProfile},
        i \in DOMAIN invoices, amount \in AmountInputs, pm \in AnyMethodInputs :
        ParentMakePayment(actor, i, "POST", amount, pm)

SubmitSpec == Init /\ [][SubmitNext]_vars

\* ------------------------------------------- the admin/finance views
\* users of every role, with and without a parent profile
AllActors ==
  Actors \cup
  { [auth |-> TRUE, role |-> "admin", profile |-> NoProfile],
    [auth |-> TRUE, role |-> "admin", profile |-> "pa"],
    [auth |-> TRUE, role |-> "", profile |-> "pa"] }

\* @login_required, @admin_finance_required
AdminFinanceRequired(actor) ==
  IF ~actor.auth THEN "login"
  ELSE IF actor.role \notin {"admin", "staff"} THEN "forbidden_role"
  ELSE "ok"

FinanceViews ==
  {"finance_dashboard", "payment_history", "outstanding_invoices",
   "parent_account_summary"}

\* the parent_id of parent_account_summary: a stored parent or not
ParentIds == Parents \cup {"nobody"}

\* what the view answers once the decorators let the request in: only
\* payment_history aggregates over stored columns; the others aggregate
\* Sum('balance_due'), a property and no column, which raises FieldError
ViewBody(view, p) ==
  IF view = "parent_account_summary" /\ p \notin parents THEN "not_found"
  ELSE IF view = "payment_history" THEN "served"
  ELSE "server_error"

\* finance_dashboard, payment_history, outstanding_invoices,
\* parent_account_summary: they read and write nothing
FinanceView(actor, view, p) ==
  /\ LET gate == AdminFinanceRequired(actor)
     IN  resp' = Response(view, IF gate = "ok" THEN ViewBody(view, p) ELSE gate)
  /\ UNCHANGED <<today, store, issued, lastGen, req, gen>>

\* a page request, a well-formed submission and a malformed one
RoleForms ==
  { <<"GET", NotANumber, "">>,
    <<"POST", Amount(Cent), "cash">>,
    <<"POST", NotANumber, "">> }

\* requests of users of every role
RoleNext ==
  \/ Tick
  \/ \E actor \in AllActors, i \in InvoiceIds, f \in RoleForms :
        ParentMakePayment(actor, i, f[1], f[2], f[3])
  \/ \E actor \in AllActors, view \in FinanceViews, p \in ParentIds :
        FinanceView(actor, view, p)

RoleSpec == Init /\ [][RoleNext]_vars

\* ------------------------------- records created, paid and deleted
\* two parents, two children, one invoice (parent pa, child 1)
RefInit ==
  /\ today = 0
  /\ parents = Parents
  /\ children = LedgerChildren
  /\ invoices = 1 :> NewInvoice(MkId("INV", 0, Format(1, InvWidth)), "pa", 1,
                                MaxAmount * Cent, 1, "draft")
  /\ payments = Empty
  /\ nextChildId = 3
  /\ nextInvoiceId = 2
  /\ nextPaymentId = 1
  /\ issued = RegNumbers \cup InvNumbers
  /\ lastGen = [k \in {"REG", "INV"} |-> NoGen]
  /\ resp = NoResp
  /\ req = [p \in Procs |-> Idle]
  /\ gen = [p \in Procs |-> Idle]

RefNext ==
  \/ \E i \in DOMAIN invoices : RecordPayment(i, Cent, today, "cash")
  \/ \E p \in Parents, c \in DOMAIN children : CreateInvoice(p, c, Cent, MaxDay, "sent")
  \/ \E c \in DOMAIN children : DeleteChild(c)
  \/ \E p \in parents : DeleteParent(p)
  \/ \E i \in DOMAIN invoices : DeleteInvoice(i)

RefSpec == RefInit /\ [][RefNext]_vars

\* ------------------------------- invoices that are cancelled or overdue
\* invoice 1 was cancelled and invoice 2 is overdue; neither has a payment
OverrideInvoices ==
  1 :> NewInvoice(MkId("INV", 0, Format(1, InvWidth)), "pa", 1, MaxAmount * Cent, 1,
                  "cancelled") @@
  2 :> NewInvoice(MkId("INV", 0, Format(2, InvWidth)), "pb", 2, Cent, 0, "overdue")

OverrideInit ==
  /\ today = 0
  /\ parents = Parents
  /\ children = LedgerChildren
  /\ invoices = OverrideInvoices
  /\ payments = Empty
  /\ nextChildId = 3
  /\ nextInvoiceId = 3
  /\ nextPaymentId = 1
  /\ issued = RegNumbers \cup InvNumbers
  /\ lastGen = [k \in {"REG", "INV"} |-> NoGen]
  /\ resp = NoResp
  /\ req = [p \in Procs |-> Idle]
  /\ gen = [p \in Procs |-> Idle]

\* payments saved directly and payments submitted by the users
OverrideNext ==
  \/ Tick
  \/ \E i \in DOMAIN invoices, m \in DirectAmounts : RecordPayment(i, m, today, "cash")
  \/ \E actor \in Actors, i \in InvoiceIds, f \in RoleForms :
        ParentMakePayment(actor, i, f[1], f[2], f[3])

OverrideSpec == OverrideInit /\ [][OverrideNext]_vars

\* the requests of one day, one after another: the date does not change
ViewNext ==
  \/ \E i \in DOMAIN invoices, m \in DirectAmounts : RecordPayment(i, m, today, "cash")
  \/ \E actor \in Actors, i \in InvoiceIds, f \in Forms :
        ParentMakePayment(actor, i, f[1], f[2], f[3])

ViewSpec == Init /\ [][ViewNext]_vars

\* --------------------------------- concurrent parent_make_payment requests
\* Each request runs the view in four steps that touch the database once
\* each: load the invoice and validate against that copy; INSERT the payment;
\* SELECT the invoice's payments and reconcile the copy; UPDATE the invoice
\* row with every column of the copy.  There is no transaction and no lock.
ReqBegin(p, actor, i, method, amount, pm) ==
  /\ req[p].pc = "idle"
  /\ LET result == Gate(actor, invoices, i, method, amount, pm)
     IN  req' = [req EXCEPT ![p] =
            IF result = "ok"
              THEN [pc |-> "insert", id |-> i, invoice |-> invoices[i],
                    amount |-> amount.mills, pm |-> pm, payment_date |-> NULL]
              ELSE [pc |-> "done", result |-> result]]
  /\ UNCHANGED <<today, store, issued, lastGen, resp, gen>>

\* Payment.objects.create(...): super().save() of Payment.save
ReqInsert(p) ==
  /\ req[p].pc = "insert"
  /\ nextPaymentId <= MaxPayments
  /\ payments' = InsertPayment(payments, nextPaymentId, req[p].id, req[p].amount,
                               today, req[p].pm)
  /\ nextPaymentId' = nextPaymentId + 1
  /\ req' = [req EXCEPT ![p].pc = "read", ![p].payment_date = today]
  /\ UNCHANGED <<today, parents, children, invoices, nextChildId, nextInvoiceId, issued,
                 lastGen, resp, gen>>

\* total_paid = sum(...) over a fresh query, then the updates of the copy
ReqRead(p) ==
  /\ req[p].pc = "read"
  /\ req' = [req EXCEPT ![p].pc = "write",
                        ![p].invoice = Reconcile(@, TotalPaid(payments, req[p].id),
                                                 req[p].payment_date)]
  /\ UNCHANGED <<today, store, issued, lastGen, resp, gen>>

\* invoice.save(): the row takes every column of the copy
ReqWrite(p) ==
  /\ req[p].pc = "write"
  /\ invoices' = [invoices EXCEPT ![req[p].id] = SaveInvoice(req[p].invoice)]
  /\ req' = [req EXCEPT ![p] = [pc |-> "done", result |-> "recorded"]]
  /\ UNCHANGED <<today, parents, children, payments, nextChildId, nextInvoiceId, nextPaymentId,
                 issued, lastGen, resp, gen>>

\* the response is sent; the worker takes the next request
ReqEnd(p) ==
  /\ req[p].pc = "done"
  /\ resp' = Response("parent_make_payment", req[p].result)
  /\ req' = [req EXCEPT ![p] = Idle]
  /\ UNCHANGED <<today, store, issued, lastGen, gen>>

PayConcNext ==
  \/ Tick
  \/ \E p \in Procs, actor \in {a \in Actors : a.profile # NoProfile},
        i \in DOMAIN invoices :
        ReqBegin(p, actor, i, "POST", Amount(Cent), "cash")
  \/ \E p \in Procs : ReqInsert(p)
  \/ \E p \in Procs : ReqRead(p)
  \/ \E p \in Procs : ReqWrite(p)
  \/ \E p \in Procs : ReqEnd(p)

PayConcSpec == Init /\ [][PayConcNext]_vars

\* invoice.save() raises (the total does not fit max_digits=10, or the
\* database refuses the UPDATE): the payment inserted before stays stored,
\* since nothing wraps the two writes in a transaction
ReqWriteFails(p) ==
  /\ req[p].pc = "write"
  /\ req' = [req EXCEPT ![p] = [pc |-> "done", result |-> "server_error"]]
  /\ UNCHANGED <<today, store, issued, lastGen, resp, gen>>

\* one request at a time, each write of which may fail
PayFailNext ==
  \/ Tick
  \/ \E actor \in {a \in Actors : a.profile # NoProfile}, i \in DOMAIN invoices :
        ReqBegin("r1", actor, i, "POST", Amount(Cent), "cash")
  \/ ReqInsert("r1")
  \/ ReqRead("r1")
  \/ ReqWrite("r1")
  \/ ReqWriteFails("r1")
  \/ ReqEnd("r1")

PayFailSpec == Init /\ [][PayFailNext]_vars

\* ======================================================================
\* Payments: properties
\* ======================================================================

\* the sum of the stored payments of invoice i, counted row by row
RECURSIVE SumUpTo(_, _, _)
SumUpTo(pays, i, n) ==
  IF n = 0 THEN 0
  ELSE (IF n \in DOMAIN pays /\ pays[n].invoice = i THEN pays[n].amount ELSE 0)
       + SumUpTo(pays, i, n - 1)

StoredSum(i) == SumUpTo(payments, i, nextPaymentId - 1)

\* a step that recorded a payment on invoice i, and the sum it left
Recorded(i) ==
  /\ nextPaymentId' = nextPaymentId + 1
  /\ payments'[nextPaymentId].invoice = i

SumAfter(i) == SumUpTo(payments', i, nextPaymentId)

Quiescent == \A p \in Procs : req[p].pc = "idle"

\* C1: with payments recorded one after another, the stored amount_paid of
\* every invoice equals the sum of the amounts of its stored payments.
C1_LedgerEqualsSum ==
  \A i \in DOMAIN invoices : invoices[i].amount_paid = StoredSum(i)

\* C1 witness: an invoice with several payments whose sum, above the billed
\* amount, is its amount_paid.
C1_Witness ==
  \E i \in DOMAIN invoices :
    /\ Cardinality(PaymentsOf(payments, i)) >= 2
    /\ invoices[i].amount_paid = StoredSum(i)
    /\ invoices[i].amount_paid > invoices[i].amount

\* C2: once the concurrent record_payment calls on an invoice have all
\* completed, its amount_paid equals the sum of its stored payments.
C2_NoLostUpdate ==
  Quiescent => \A i \in DOMAIN invoices : invoices[i].amount_paid = StoredSum(i)

\* C3: a record_payment that brings the sum of the invoice's payments to the
\* billed amount or more leaves status 'paid' and paid_date = the
\* payment_date of the payment just recorded.
C3_PaidTransition ==
  [][\A i \in DOMAIN invoices :
        (Recorded(i) /\ SumAfter(i) >= invoices[i].amount) =>
            /\ invoices'[i].amount_paid = SumAfter(i)
            /\ invoices'[i].status = "paid"
            /\ invoices'[i].paid_date = payments'[nextPaymentId].payment_date]_vars

\* C3 witness: the invoice billed MaxAmount cents was paid by two payments
\* on different days that add up to exactly the billed amount; it is 'paid'
\* and its paid_date is the date of the second payment.
C3_Witness ==
  /\ PaymentsOf(payments, 1) = {1, 2}
  /\ payments[1].payment_date # payments[2].payment_date
  /\ payments[1].amount + payments[2].amount = invoices[1].amount
  /\ invoices[1].amount_paid = invoices[1].amount
  /\ invoices[1].status = "paid"
  /\ invoices[1].paid_date = payments[2].payment_date

\* C4: a record_payment that leaves the sum of the invoice's payments
\* strictly between 0 and the billed amount leaves status 'partial' and
\* paid_date as it was.
C4_PartialTransition ==
  [][\A i \in DOMAIN invoices :
        (Recorded(i) /\ SumAfter(i) > 0 /\ SumAfter(i) < invoices[i].amount) =>
            /\ invoices'[i].amount_paid = SumAfter(i)
            /\ invoices'[i].status = "partial"
            /\ invoices'[i].paid_date = invoices[i].paid_date]_vars

\* C4 witness: one payment of a part of the billed amount: 'partial', and
\* paid_date still NULL.
C4_Witness ==
  /\ PaymentsOf(payments, 1) = {1}
  /\ payments[1].amount = Cent
  /\ invoices[1].amount > Cent
  /\ invoices[1].amount_paid = Cent
  /\ invoices[1].status = "partial"
  /\ invoices[1].paid_date = NULL

\* the request gets past the decorators, the lookup, the ownership check and
\* the 'paid' check
ReachesValidation(actor, i) ==
  /\ actor.auth
  /\ actor.role = "parent"
  /\ i \in DOMAIN invoices
  /\ actor.profile = invoices[i].parent
  /\ invoices[i].status # "paid"

\* the submitted amounts that are numbers and are 0 or negative
NonPositiveInputs == {a \in AmountInputs : a.num /\ a.mills <= 0}

\* C5: a submission (POST) whose amount is 0 or negative creates no payment
\* and changes no invoice, and is never answered as recorded; when it gets
\* as far as the validation, the answer is the error "amount must be
\* greater than 0".
C5_NonPositiveRejected ==
  [][\A actor \in Actors, i \in InvoiceIds :
        \/ /\ UNCHANGED <<payments, nextPaymentId, invoices>>
           /\ resp'.result # "recorded"
           /\ ReachesValidation(actor, i) => resp'.result = "amount_not_positive"
        \/ \A amount \in NonPositiveInputs, pm \in MethodInputs :
              ~ParentMakePayment(actor, i, "POST", amount, pm)]_vars

\* C5 witness: after payments were recorded, a submission was answered with
\* "amount must be greater than 0".
C5_Witness ==
  /\ resp = Response("parent_make_payment", "amount_not_positive")
  /\ payments # Empty

\* the user is a parent, and the invoice is stored and is not theirs
NotOwnInvoice(actor, i) ==
  /\ actor.auth
  /\ actor.role = "parent"
  /\ i \in DOMAIN invoices
  /\ actor.profile = NoProfile \/ actor.profile # invoices[i].parent

\* C6: a parent who requests the payment page of an invoice that is not
\* theirs, with any method and any form, is answered 403 "You cannot pay
\* this invoice"; no payment is created and no invoice changes.
C6_ForeignInvoiceForbidden ==
  [][\A actor \in Actors, i \in InvoiceIds :
        NotOwnInvoice(actor, i) =>
            \/ /\ resp'.result = "forbidden_invoice"
               /\ UNCHANGED <<payments, nextPaymentId, invoices>>
            \/ \A f \in Forms : ~ParentMakePayment(actor, i, f[1], f[2], f[3])]_vars

\* C6 witness: a request was answered "You cannot pay this invoice" while
\* the invoices of both parents are unpaid.
C6_Witness ==
  /\ resp = Response("parent_make_payment", "forbidden_invoice")
  /\ \A i \in DOMAIN invoices : invoices[i].status # "paid"

\* ======================================================================
\* Identifier generator: properties
\* ======================================================================

\* a step in which save() of a new record of this kind generated an identifier
Generated(kind) == lastGen'[kind].some /\ lastGen'[kind] # lastGen[kind]

\* the previous generation of this kind was in the current period, and no
\* record of the kind was deleted since
PreviousInPeriod(kind) ==
  /\ lastGen[kind].some
  /\ lastGen[kind].id.period = PeriodOf(kind, today)

\* C7: two successive generations in the same period, with no other
\* identifier of that period created in between, yield two distinct
\* identifiers whose numeric suffixes differ by exactly 1.
C7_SuccessiveDifferByOne ==
  [][\A k \in Kinds :
        (Generated(k) /\ PreviousInPeriod(k)) =>
            /\ lastGen'[k].id # lastGen[k].id
            /\ Parse(lastGen'[k].id.seq) = Parse(lastGen[k].id.seq) + 1]_vars

\* C7, restricted to sequence numbers that still fit the zero-padding width:
\* there the two identifiers do differ by exactly 1.
C7_WithinWidth ==
  [][\A k \in Kinds :
        (/\ Generated(k)
         /\ PreviousInPeriod(k)
         /\ Parse(lastGen[k].id.seq) + 1 < 10 ^ WidthOf(k)) =>
            /\ lastGen'[k].id # lastGen[k].id
            /\ Parse(lastGen'[k].id.seq) = Parse(lastGen[k].id.seq) + 1]_vars

\* C8: an identifier generated in a period for which no identifier is
\* stored gets sequence number 1, whatever is stored for earlier periods.
C8_NewPeriodStartsAtOne ==
  [][\A k \in Kinds :
        (/\ Generated(k)
         /\ \A n \in Existing(k) : n.period # PeriodOf(k, today)) =>
            /\ lastGen'[k].id.period = PeriodOf(k, today)
            /\ Parse(lastGen'[k].id.seq) = 1
            /\ lastGen'[k].stored]_vars

\* C8 witness: both a registration code and an invoice number with sequence
\* number 1 were just stored in a later period while identifiers of an
\* earlier period are still stored.
C8_Witness ==
  \A k \in Kinds :
    /\ lastGen[k].some
    /\ lastGen[k].stored
    /\ lastGen[k].id.period = PeriodOf(k, today)
    /\ Parse(lastGen[k].id.seq) = 1
    /\ \E n \in Existing(k) : n.period < lastGen[k].id.period

\* C9: an identifier once issued is never issued again, and each newly
\* issued sequence number of a period is greater than every sequence number
\* issued before in that period.
C9_UniqueAndMonotonic ==
  [][\A k \in Kinds :
        (Generated(k) /\ lastGen'[k].stored) =>
            /\ lastGen'[k].id \notin issued
            /\ \A n \in issued :
                  (n.prefix = k /\ n.period = lastGen'[k].id.period) =>
                      Parse(n.seq) < Parse(lastGen'[k].id.seq)]_vars

\* C10: two concurrent creations of one kind that have both read the last
\* identifier of the same period, neither having written yet, hold the same
\* identifier, and it is not stored yet: each would pass a check made now.
C10_ConcurrentReadsCollide ==
  \A p \in Procs : \A q \in Procs \ {p} :
    (/\ gen[p].pc = "write"
     /\ gen[q].pc = "write"
     /\ gen[p].kind = gen[q].kind
     /\ gen[p].id.period = gen[q].id.period) =>
        /\ gen[p].id = gen[q].id
        /\ gen[p].id \notin RegNumbers \cup InvNumbers

\* C10 witness: both creations have run to their end after reading the same
\* first identifier of a period: one is stored, the other hit the unique
\* index.
C10_Witness ==
  \E p \in Procs : \E q \in Procs \ {p} :
    /\ gen[p].pc = "done" /\ gen[p].result = "stored"
    /\ gen[q].pc = "done" /\ gen[q].result = "conflict"
    /\ gen[p].id = gen[q].id
    /\ Parse(gen[p].id.seq) = 1

\* ======================================================================
\* Atomicity, idempotence, overpayment
\* ======================================================================

\* C11: once an operation has ended, by success or by error, every stored
\* payment is reflected in the amount_paid of its invoice.
C11_AllOrNothing ==
  \A k \in DOMAIN payments :
    Quiescent =>
        invoices[payments[k].invoice].amount_paid = StoredSum(payments[k].invoice)

\* the totals and trigger dates the rule may be applied to
TotalInputs == {c * Cent : c \in (0 - 1)..(MaxAmount + 1)}

DateInputs == 0..MaxDay

\* C12: applying the reconciliation rule a second time, with the same total
\* and the same triggering payment date, changes nothing: amount_paid, status
\* and paid_date are those of the first application.
C12_ReconcileIdempotent ==
  \A i \in DOMAIN invoices, t \in TotalInputs, d \in DateInputs :
    LET once == Reconcile(invoices[i], t, d)
    IN  Reconcile(once, t, d) = once

\* C12 witness: the rule has run for the last payment of an invoice and left
\* it overpaid and 'paid'; running it again for that payment gives that row.
C12_Witness ==
  \E i \in DOMAIN invoices :
    /\ nextPaymentId - 1 \in PaymentsOf(payments, i)
    /\ invoices[i].status = "paid"
    /\ invoices[i].amount_paid > invoices[i].amount
    /\ Reconcile(invoices[i], TotalPaid(payments, i),
                 payments[nextPaymentId - 1].payment_date) = invoices[i]

\* the submitted amounts that are numbers above the balance due of invoice i
Overpaying(i) == {a \in AmountInputs : a.num /\ a.mills > BalanceDue(invoices[i])}

\* C13 as stated: a payment above the balance due is accepted and recorded
\* by every payment path, parent_make_payment included, and leaves the
\* invoice overpaid and 'paid'.
C13_OverpaymentNeverRejected ==
  [][\A actor \in Actors, i \in DOMAIN invoices :
        ReachesValidation(actor, i) =>
            \/ /\ Recorded(i)
               /\ invoices'[i].status = "paid"
               /\ invoices'[i].amount_paid > invoices'[i].amount
            \/ \A amount \in Overpaying(i) :
                  ~ParentMakePayment(actor, i, "POST", amount, "cash")]_vars

\* C13 amended: Payment.save records a payment above the balance due in
\* full (amount_paid grows by the whole amount and exceeds the billed
\* amount, status 'paid'); parent_make_payment answers a submitted amount
\* above the balance due with "amount cannot exceed balance due" and records
\* nothing.
C13_OverpaymentOnlyBySave ==
  [][/\ \A i \in DOMAIN invoices, m \in DirectAmounts :
           m > BalanceDue(invoices[i]) =>
               \/ /\ Recorded(i)
                  /\ payments'[nextPaymentId].amount = m
                  /\ invoices'[i].amount_paid = invoices[i].amount_paid + m
                  /\ invoices'[i].amount_paid > invoices'[i].amount
                  /\ invoices'[i].status = "paid"
               \/ ~RecordPayment(i, m, today, "cash")
     /\ \A actor \in Actors, i \in DOMAIN invoices :
           ReachesValidation(actor, i) =>
               \/ /\ resp'.result = "amount_exceeds_balance"
                  /\ UNCHANGED <<payments, nextPaymentId, invoices>>
               \/ \A amount \in Overpaying(i), pm \in MethodInputs :
                     ~ParentMakePayment(actor, i, "POST", amount, pm)]_vars

\* C13 witness: one invoice is overpaid (by a payment saved directly) and a
\* submission above the balance due of the other has just been refused.
C13_Witness ==
  /\ resp = Response("parent_make_payment", "amount_exceeds_balance")
  /\ \E i \in DOMAIN invoices :
        /\ invoices[i].amount_paid > invoices[i].amount
        /\ invoices[i].status = "paid"
  /\ \E i \in DOMAIN invoices : invoices[i].status # "paid"

\* ======================================================================
\* Protected references
\* ======================================================================

\* every reference of a stored row points to a stored row
RefsOK ==
  /\ \A i \in DOMAIN invoices :
        /\ invoices[i].parent \in parents
        /\ invoices[i].child \in DOMAIN children
  /\ \A k \in DOMAIN payments : payments[k].invoice \in DOMAIN invoices

\* the deletion was refused and nothing stored changed
Blocked ==
  /\ resp' = Response("delete", "protected_error")
  /\ UNCHANGED store

\* C14: every invoice refers to a stored parent and a stored child and every
\* payment to a stored invoice; deleting a parent or child referenced by an
\* invoice, or an invoice referenced by a payment, is refused and changes
\* nothing stored.
C14_ProtectedReferences ==
  [][/\ RefsOK => RefsOK'
     /\ \A c \in DOMAIN children : ChildProtected(c) => (Blocked \/ ~DeleteChild(c))
     /\ \A p \in parents : ParentProtected(p) => (Blocked \/ ~DeleteParent(p))
     /\ \A i \in DOMAIN invoices :
           InvoiceProtected(i) => (Blocked \/ ~DeleteInvoice(i))]_vars

\* C14 witness: after a parent and a child without invoices were deleted and
\* a payment was recorded, a deletion has just been refused.
C14_Witness ==
  /\ resp = Response("delete", "protected_error")
  /\ parents # Parents
  /\ 2 \notin DOMAIN children
  /\ payments # Empty
  /\ RefsOK

\* ======================================================================
\* Identifier generator: conflicts and order
\* ======================================================================

\* C15: a creation whose identifier violates the uniqueness constraint stores
\* nothing, and the creation submitted again in the same period gets an
\* identifier different from the conflicting one.
C15_RetryGetsNewIdentifier ==
  [][\A p \in Procs :
        /\ (gen[p].pc = "write" /\ gen'[p].pc = "done" /\ gen'[p].result = "conflict")
              => UNCHANGED store
        /\ (/\ gen[p].pc = "done"
            /\ gen'[p].pc = "write"
            /\ gen'[p].id.period = gen[p].id.period)
              => gen'[p].id # gen[p].id]_vars

\* the stored identifiers of a kind in the current period
StoredInPeriod(k) ==
  {n \in Existing(k) : StartsWith(n, k, PeriodOf(k, today))}

\* C16: the identifier the generator picks as last, the largest in string
\* order among those of the period, has the numerically largest sequence
\* number, also past the zero-padding width.
C16_LexLastIsNumericMax ==
  \A k \in Kinds :
    StoredInPeriod(k) # {} =>
        \A n \in StoredInPeriod(k) :
            Parse(n.seq) <= Parse(LexLast(StoredInPeriod(k)).seq)

\* ======================================================================
\* Roles, stored payments, derived fields
\* ======================================================================

IsParentUser(actor) == actor.auth /\ actor.role = "parent"

IsFinanceUser(actor) == actor.auth /\ actor.role \in {"admin", "staff"}

\* the request was turned away by the decorators and nothing stored changed
TurnedAway ==
  /\ resp'.result \in {"login", "forbidden_role"}
  /\ UNCHANGED store

\* C17: a request to parent_make_payment by a user who is not an
\* authenticated parent, and a request to an admin/finance view by a user who
\* is not an authenticated admin or staff member, is turned away (login
\* redirect or 403) with nothing stored changed; so a payment is recorded by
\* the view only for an authenticated parent and the finance views are
\* served only to admin and staff.
C17_RoleGating ==
  [][/\ \A actor \in AllActors :
           ~IsParentUser(actor) =>
               \/ TurnedAway
               \/ \A i \in InvoiceIds, f \in RoleForms :
                     ~ParentMakePayment(actor, i, f[1], f[2], f[3])
     /\ \A actor \in AllActors :
           ~IsFinanceUser(actor) =>
               \/ TurnedAway
               \/ \A view \in FinanceViews, p \in ParentIds :
                     ~FinanceView(actor, view, p)
     /\ resp'.result = "served" => resp'.op \in FinanceViews /\ UNCHANGED store]_vars

\* C17 witness: after a parent has paid a part of an invoice, a user whose
\* role is not 'parent' has just been refused by the payment view.
C17_Witness ==
  /\ resp = Response("parent_make_payment", "forbidden_role")
  /\ payments # Empty
  /\ \E i \in DOMAIN invoices : invoices[i].status = "partial"

\* C18: every stored payment has a positive amount and a payment method of
\* the enumeration, whatever the submitted form values were.
C18_StoredPaymentsValid ==
  \A k \in DOMAIN payments :
    /\ payments[k].amount > 0
    /\ payments[k].payment_method \in PAYMENT_METHOD_CHOICES


\* C19: the overdue fields and the balance shown for an invoice are functions
\* of the stored invoice and of the current date only: is_overdue is true
\* exactly when the status is neither 'paid' nor 'cancelled' and today is
\* strictly after due_date; days_overdue is 0 when is_overdue is false and
\* otherwise the strictly positive number of days from due_date to today;
\* balance_due is amount minus amount_paid; reading them changes nothing.
Served == resp'.op = "parent_invoice_detail" /\ resp'.result = "served" /\ resp' # resp

C19_DerivedFields ==
  [][Served =>
       LET inv == invoices[resp'.invoice]
           late == inv.status \notin {"paid", "cancelled"} /\ today > inv.due_date
       IN  /\ UNCHANGED <<today, store>>
           /\ resp'.is_overdue = late
           /\ ~late => resp'.days_overdue = 0
           /\ late => resp'.days_overdue = today - inv.due_date /\ resp'.days_overdue > 0
           /\ resp'.balance_due = inv.amount - inv.amount_paid]_vars

\* a page was served for an invoice two days late with a payment on it
C19_Witness ==
  /\ resp.op = "parent_invoice_detail" /\ resp.result = "served"
  /\ resp.is_overdue /\ resp.days_overdue = 2
  /\ invoices[resp.invoice].status = "partial"
  /\ resp.balance_due = BalanceDue(invoices[resp.invoice])
  /\ resp.balance_due > 0

\* C20: with payments of positive amounts only (stored amounts are then
\* never negative) and never deleted, no step lowers the amount_paid of an
\* invoice, and no step takes an invoice whose status is 'paid' to any
\* other status.
C20_PaidAbsorbing ==
  [][(\A k \in DOMAIN payments' : payments'[k].amount >= 0) =>
       \A i \in DOMAIN invoices \cap DOMAIN invoices' :
         /\ invoices'[i].amount_paid >= invoices[i].amount_paid
         /\ invoices[i].status = "paid" => invoices'[i].status = "paid"]_vars

\* C21: payments submitted through parent_make_payment never overpay: after
\* every step, of concurrent requests too, the amount_paid of every invoice is
\* at most its billed amount, and no payment is inserted for an invoice whose
\* stored status is 'paid'.
C21_ViewNeverOverpays ==
  [][/\ \A i \in DOMAIN invoices' : invoices'[i].amount_paid <= invoices'[i].amount
     /\ \A k \in DOMAIN payments' \ DOMAIN payments :
          invoices[payments'[k].invoice].status # "paid"]_vars

\* C22: for invoices created 'draft' or 'sent' with no paid_date and then
\* paid on by record_payment calls, paid_date is set exactly when the status
\* is 'paid'.
C22_PaidDateIffPaid ==
  \A i \in DOMAIN invoices :
    (invoices[i].paid_date # NULL) <=> (invoices[i].status = "paid")

\* C23: a payment that is saved and leaves the sum of the invoice's payments
\* above 0 leaves the status 'partial' or 'paid', whatever the status was
\* ('cancelled' and 'overdue' too); and a submission to parent_make_payment by
\* the invoice's parent, of an amount within the balance due and with a
\* method, is recorded for every status but 'paid' ('cancelled' too).
C23_ReconcileOverridesStatus ==
  [][/\ \A i \in DOMAIN invoices :
           Recorded(i) /\ TotalPaid(payments', i) > 0 =>
               invoices'[i].status \in {"partial", "paid"}
     /\ \A actor \in Actors, i \in DOMAIN invoices :
           ReachesValidation(actor, i) /\ Cent <= BalanceDue(invoices[i]) =>
               \/ Recorded(i) /\ resp'.result = "recorded"
               \/ ~ParentMakePayment(actor, i, "POST", Amount(Cent), "cash")]_vars

\* the cancelled invoice is 'partial' and the overdue one is 'paid', the
\* last payment having been submitted through parent_make_payment
C23_Witness ==
  /\ invoices[1].status = "partial"
  /\ invoices[2].status = "paid"
  /\ resp = Response("parent_make_payment", "recorded")

====
